---- MODULE Spec2Model ----
(***************************************************************************)
(* BreakpointDisplayController (pkg/nuclide-debugger/lib): the per-editor  *)
(* controller that keeps gutter markers in step with the breakpoint store, *)
(* shows a hover ("shadow") marker, and turns marker moves caused by text  *)
(* edits into breakpoint actions.                                          *)
(*                                                                         *)
(* The controller is single threaded: every handler is one atomic action.  *)
(* The breakpoint store and the action dispatcher are other files of the   *)
(* package; they are modelled at their interface (a row set per path, a    *)
(* FIFO of dispatched actions, a change notification).  The editor's       *)
(* markers are modelled by what the controller asks of them: a row that    *)
(* follows edits, destroy(), and change events.                            *)
(***************************************************************************)
EXTENDS Integers, Sequences, FiniteSets, TLC

\* ---------------------------------------------------------------- bounds
MaxRow == 2          \* buffer rows are 0..MaxRow
MaxMarkers == 2      \* markers created over one run

Rows == 0..MaxRow
NULL == 0            \* a null marker reference (marker ids start at 1)
NoRow == -1          \* "no row": the pointer is outside the gutter
EditorPath == "P"    \* the path of this editor's file, when it has one
NoPath == "none"     \* editor.getPath() == null
Paths == {"P", "Q"}  \* paths the store notifies about
NoGoal == {NoRow}    \* no line insertion is being processed

VARIABLES
  store,                        \* breakpoint rows the store holds for EditorPath
  editorPath,                   \* this._editor.getPath(): EditorPath or NoPath
  marks,                        \* every marker created so far, by id
  _markers,                     \* this._markers: ids, in array order
  _lastShadowBreakpointMarker,  \* this._lastShadowBreakpointMarker: id or NULL
  _gutter,                      \* this._gutter != null
  gutterLive,                   \* the gutter object still exists
  gutterVisible,                \* gutter.show() was called
  gutterDestroyCalls,           \* calls of gutter.destroy() made by the controller
  disposed,                     \* this._disposables is disposed
  editorDestroyed,              \* the text editor was destroyed
  events,                       \* marker change events not yet delivered
  actions,                      \* dispatched actions the store has not processed
  delegateCalls,                \* calls of delegate.handleTextEditorDestroyed
  invariantFailed,              \* invariant(this._gutter != null) has thrown
  sincePass,                    \* since the last completed _update: "clean",
                                \* "dirty" (store changed, marker moved) or
                                \* "joined" (an edit deleted lines)
  mover,                        \* the marker whose change handler dispatched
                                \* the actions now waiting, else NULL
  burstGoal                     \* while the change events of a line insertion
                                \* are processed, none being dropped: the
                                \* store's rows before it, shifted as the
                                \* lines were; else NoGoal

vars == <<store, editorPath, marks, _markers, _lastShadowBreakpointMarker,
          _gutter, gutterLive, gutterVisible, gutterDestroyCalls, disposed,
          editorDestroyed, events, actions, delegateCalls,
          invariantFailed, sincePass, mover, burstGoal>>

\* ------------------------------------------------------------ helpers
Range(s) == {s[i] : i \in DOMAIN s}

RECURSIVE SetToSeq(_)
\* The rows of a set in ascending order (the iteration order of the store's map).
SetToSeq(S) ==
  IF S = {} THEN <<>>
  ELSE LET m == CHOOSE x \in S : \A y \in S : x <= y
       IN <<m>> \o SetToSeq(S \ {m})

\* The strategy the markers are created with.
InvalidateStrategy == "never"

\* editor.markBufferPosition([line, 0], {invalidate: 'never'})
NewMarker(line, isShadow) ==
  [row |-> line, live |-> TRUE, shadow |-> isShadow,
   handler |-> FALSE, decorated |-> FALSE]

\* A destroyed marker: it has no position, handler or decoration any more.
Dead ==
  [row |-> NoRow, live |-> FALSE, shadow |-> FALSE, handler |-> FALSE,
   decorated |-> FALSE]

\* marker.destroy()
Destroy(mk, m) == [mk EXCEPT ![m] = Dead]

\* A _createBreakpointMarkerAtLine that subscribes the change handler itself,
\* for shadow markers too.
_createBreakpointMarkerAtLine_withHandler(mk, line, isShadow, gutter) ==
  LET m == Append(mk, [NewMarker(line, isShadow) EXCEPT !.handler = TRUE])
      id == Len(mk) + 1
  IN [marks |-> IF gutter THEN [m EXCEPT ![id].decorated = TRUE] ELSE m,
      marker |-> id,
      threw |-> ~gutter]

\* _createBreakpointMarkerAtLine: the marker is created first; the decoration
\* is attached only when invariant(this._gutter != null) passes, else it throws.
_createBreakpointMarkerAtLine(mk, line, isShadow, gutter) ==
  LET m == Append(mk, NewMarker(line, isShadow))
      id == Len(mk) + 1
  IN [marks |-> IF gutter THEN [m EXCEPT ![id].decorated = TRUE] ELSE m,
      marker |-> id,
      threw |-> ~gutter]

RowsOf(mk, ms) == {mk[ms[i]].row : i \in DOMAIN ms}
AllLive(mk, ms) == \A i \in DOMAIN ms : mk[ms[i]].live
LiveMarkers == {m \in DOMAIN marks : marks[m].live}
LiveShadows == {m \in LiveMarkers : marks[m].shadow}

\* ---------------------------------------------------------- _update
RECURSIVE DestroyStale_noDelete(_, _, _, _)
\* A reconciliation that forgets unhandledLines.delete(line).
DestroyStale_noDelete(mk, ms, unhandledLines, markersToKeep) ==
  IF ms = <<>>
  THEN [marks |-> mk, unhandledLines |-> unhandledLines,
        markersToKeep |-> markersToKeep]
  ELSE LET marker == Head(ms)
           line == mk[marker].row
       IN IF line \in unhandledLines
          THEN DestroyStale_noDelete(mk, Tail(ms), unhandledLines,
                                     Append(markersToKeep, marker))
          ELSE DestroyStale_noDelete(Destroy(mk, marker), Tail(ms),
                                     unhandledLines, markersToKeep)

RECURSIVE DestroyStale_noReuse(_, _, _, _)
\* A reconciliation that destroys every existing marker and rebuilds them.
DestroyStale_noReuse(mk, ms, unhandledLines, markersToKeep) ==
  IF ms = <<>>
  THEN [marks |-> mk, unhandledLines |-> unhandledLines,
        markersToKeep |-> markersToKeep]
  ELSE DestroyStale_noReuse(Destroy(mk, Head(ms)), Tail(ms),
                            unhandledLines, markersToKeep)

RECURSIVE DestroyStale(_, _, _, _)
\* this._markers.forEach(...): keep the first marker found on each breakpoint
\* row and take the row out of unhandledLines; destroy every other marker.
DestroyStale(mk, ms, unhandledLines, markersToKeep) ==
  IF ms = <<>>
  THEN [marks |-> mk, unhandledLines |-> unhandledLines,
        markersToKeep |-> markersToKeep]
  ELSE LET marker == Head(ms)
           line == mk[marker].row
       IN IF line \in unhandledLines
          THEN DestroyStale(mk, Tail(ms), unhandledLines \ {line},
                            Append(markersToKeep, marker))
          ELSE DestroyStale(Destroy(mk, marker), Tail(ms),
                            unhandledLines, markersToKeep)

\* A second loop that creates no marker.
AddMissing_noCreate(mk, breakpoints, unhandledLines, markersToKeep) ==
  [marks |-> mk, markersToKeep |-> markersToKeep]

RECURSIVE AddMissing_noSkip(_, _, _, _)
\* A second loop without the "this line has been handled" test.
AddMissing_noSkip(mk, breakpoints, unhandledLines, markersToKeep) ==
  IF breakpoints = <<>>
  THEN [marks |-> mk, markersToKeep |-> markersToKeep]
  ELSE LET c == _createBreakpointMarkerAtLine(mk, Head(breakpoints), FALSE, TRUE)
           withHandler == [c.marks EXCEPT ![c.marker].handler = TRUE]
       IN AddMissing_noSkip(withHandler, Tail(breakpoints), unhandledLines,
                            Append(markersToKeep, c.marker))

RECURSIVE AddMissing(_, _, _, _)
\* for (const [line] of breakpoints): create a marker, with the change
\* handler, for every line still in unhandledLines.
AddMissing(mk, breakpoints, unhandledLines, markersToKeep) ==
  IF breakpoints = <<>>
  THEN [marks |-> mk, markersToKeep |-> markersToKeep]
  ELSE LET line == Head(breakpoints)
       IN IF line \notin unhandledLines
          THEN AddMissing(mk, Tail(breakpoints), unhandledLines, markersToKeep)
          ELSE LET c == _createBreakpointMarkerAtLine(mk, line, FALSE, TRUE)
                   withHandler == [c.marks EXCEPT ![c.marker].handler = TRUE]
               IN AddMissing(withHandler, Tail(breakpoints), unhandledLines,
                             Append(markersToKeep, c.marker))

\* _update() past its two guards, for the store's rows B of the editor's path.
_update(mk, ms, B) ==
  LET kept == DestroyStale(mk, ms, B, <<>>)
      done == AddMissing(kept.marks, SetToSeq(B), kept.unhandledLines,
                         kept.markersToKeep)
  IN [marks |-> done.marks,
      markers |-> done.markersToKeep,
      unhandledLines |-> kept.unhandledLines]

\* A getter that hands out the store's own row set: what _update() deletes
\* from unhandledLines is gone from the store.
StoreRowsAfterPass_shared(B, unhandledLines) == unhandledLines

\* The store's rows after a pass.  getBreakpointLinesForPath(path) answers
\* with a mutable set of its own, so unhandledLines.delete(line) leaves the
\* store's rows as they are.
StoreRowsAfterPass(B, unhandledLines) == B

\* ------------------------------------------------------------- Init
\* The state after the constructor: the gutter is added, the subscriptions
\* are made, and _update() has run once.
Init ==
  \E B \in {X \in SUBSET Rows : Cardinality(X) <= MaxMarkers},
     p \in {EditorPath, NoPath} :
    LET ran == p # NoPath
        u == IF ran THEN _update(<<>>, <<>>, B)
             ELSE [marks |-> <<>>, markers |-> <<>>, unhandledLines |-> B]
    IN /\ store = StoreRowsAfterPass(B, u.unhandledLines)
       /\ editorPath = p
       /\ marks = u.marks
       /\ _markers = u.markers
       /\ _lastShadowBreakpointMarker = NULL
       /\ _gutter = TRUE
       /\ gutterLive = TRUE
       /\ gutterVisible = ran
       /\ gutterDestroyCalls = 0
       /\ disposed = FALSE
       /\ editorDestroyed = FALSE
       /\ events = {}
       /\ actions = <<>>
       /\ delegateCalls = 0
       /\ invariantFailed = FALSE
       /\ sincePass = IF ran THEN "clean" ELSE "dirty"
       /\ mover = NULL
       /\ burstGoal = NoGoal

\* The editor emits the change events of one edit in one synchronous burst and
\* the dispatcher hands each action to the store before it returns: no pointer
\* event, lifecycle event or further edit starts in between.  Store-change
\* notifications may arrive at any point.
HostIdle == events = {} /\ actions = <<>>

\* --------------------------------------------------- store notifications
\* _handleBreakpointsChanged(path), called by the store's onNeedUIUpdate.
\* _update() returns early when this._gutter is null.
_handleBreakpointsChanged(path) ==
  /\ ~disposed
  /\ LET forMe == path = editorPath
         ran == forMe /\ _gutter
         u == IF ran THEN _update(marks, _markers, store)
              ELSE [marks |-> marks, markers |-> _markers,
                    unhandledLines |-> store]
     IN /\ Len(u.marks) <= MaxMarkers
        /\ marks' = u.marks
        /\ _markers' = u.markers
        /\ store' = StoreRowsAfterPass(store, u.unhandledLines)
        /\ gutterVisible' = (gutterVisible \/ ran)
        /\ sincePass' = IF ran THEN "clean" ELSE sincePass
  /\ UNCHANGED <<editorPath, _lastShadowBreakpointMarker, _gutter,
                 gutterLive, gutterDestroyCalls, disposed, editorDestroyed,
                 events, actions, delegateCalls, invariantFailed, mover,
                 burstGoal>>

\* ------------------------------------------------------- pointer events
\* _isLineOverLastShadowBreakpoint(curLine)
_isLineOverLastShadowBreakpoint(curLine) ==
  /\ _lastShadowBreakpointMarker # NULL
  /\ marks[_lastShadowBreakpointMarker].row = curLine

\* _removeLastShadowBreakpoint(): the marks after it; the reference becomes null.
_removeLastShadowBreakpoint(mk, shadow) ==
  IF shadow # NULL THEN Destroy(mk, shadow) ELSE mk

\* _handleGutterMouseMove(event), the pointer being over row curLine.  When
\* the gutter reference is null the new marker exists but the invariant throws
\* before it is decorated or stored in _lastShadowBreakpointMarker.
_handleGutterMouseMove(curLine) ==
  /\ ~disposed /\ ~editorDestroyed /\ HostIdle
  /\ IF _isLineOverLastShadowBreakpoint(curLine)
     THEN UNCHANGED <<marks, _lastShadowBreakpointMarker, invariantFailed>>
     ELSE LET removed == _removeLastShadowBreakpoint(
                           marks, _lastShadowBreakpointMarker)
              c == _createBreakpointMarkerAtLine(removed, curLine, TRUE, _gutter)
          IN /\ Len(marks) < MaxMarkers
             /\ marks' = c.marks
             /\ _lastShadowBreakpointMarker' =
                  IF c.threw THEN NULL ELSE c.marker
             /\ invariantFailed' = (invariantFailed \/ c.threw)
  /\ UNCHANGED <<store, editorPath, _markers, _gutter, gutterLive,
                 gutterVisible, gutterDestroyCalls, disposed, editorDestroyed,
                 events, actions, delegateCalls, sincePass, mover,
                 burstGoal>>

\* _handleGutterMouseLeave(event)
_handleGutterMouseLeave ==
  /\ ~disposed /\ ~editorDestroyed /\ HostIdle
  /\ marks' = _removeLastShadowBreakpoint(marks, _lastShadowBreakpointMarker)
  /\ _lastShadowBreakpointMarker' = NULL
  /\ UNCHANGED <<store, editorPath, _markers, _gutter, gutterLive,
                 gutterVisible, gutterDestroyCalls, disposed, editorDestroyed,
                 events, actions, delegateCalls, invariantFailed, sincePass,
                 mover,
                 burstGoal>>

\* A click handler that toggles on the inline icon too.
ClickDispatch_ignoresIcon(line, onIcon) ==
  IF editorPath = NoPath THEN <<>>
  ELSE <<[type |-> "toggle", row |-> line]>>

\* A click handler that does not look at the editor's path.
ClickDispatch_noPathCheck(line, onIcon) ==
  IF onIcon THEN <<>>
  ELSE <<[type |-> "toggle", row |-> line]>>

\* What _handleGutterClick dispatches for a click on row line; onIcon says the
\* click target carries the class 'icon-right'.
ClickDispatch(line, onIcon) ==
  IF onIcon \/ editorPath = NoPath THEN <<>>
  ELSE <<[type |-> "toggle", row |-> line]>>

\* _handleGutterClick(event)
_handleGutterClick(line, onIcon) ==
  /\ ~disposed /\ ~editorDestroyed /\ HostIdle
  /\ actions' = actions \o ClickDispatch(line, onIcon)
  /\ UNCHANGED <<store, editorPath, marks, _markers,
                 _lastShadowBreakpointMarker, _gutter, gutterLive,
                 gutterVisible, gutterDestroyCalls, disposed, editorDestroyed,
                 events, delegateCalls, invariantFailed, sincePass>>
  /\ mover' = NULL
  /\ burstGoal' = burstGoal

\* ------------------------------------------------ text edits and markers
\* Whether a marker is still valid after an edit; spanned says the edit
\* deleted the text the marker was in.
IsValidAfterEdit(spanned) == InvalidateStrategy = "never" \/ ~spanned

\* A text edit: every live marker on row r goes to newRow[r]; the markers
\* with a change handler on the rows in touched get a change event.
ApplyEdit(newRow, touched, spannedRows) ==
  /\ ~editorDestroyed
  /\ HostIdle
  /\ \E m \in LiveMarkers : marks[m].row \in touched
  /\ marks' = [m \in DOMAIN marks |->
                 IF marks[m].live
                 THEN [marks[m] EXCEPT !.row = newRow[marks[m].row]]
                 ELSE marks[m]]
  /\ events' = {[marker |-> m, oldRow |-> marks[m].row,
                 newRow |-> newRow[marks[m].row],
                 isValid |-> IsValidAfterEdit(marks[m].row \in spannedRows),
                 spanned |-> marks[m].row \in spannedRows] :
                m \in {x \in LiveMarkers :
                         marks[x].handler /\ marks[x].row \in touched}}
  /\ UNCHANGED <<store, editorPath, _markers, _lastShadowBreakpointMarker,
                 _gutter, gutterLive, gutterVisible, gutterDestroyCalls,
                 disposed, editorDestroyed, actions, delegateCalls,
                 invariantFailed, mover>>

\* A line break is inserted above row r: the markers on rows >= r go down one.
InsertLine(r) ==
  /\ \A m \in LiveMarkers : marks[m].row >= r => marks[m].row < MaxRow
  /\ ApplyEdit([x \in Rows |-> IF x >= r /\ x < MaxRow THEN x + 1 ELSE x],
               {x \in Rows : x >= r}, {})
  /\ sincePass' = IF sincePass = "clean" THEN "dirty" ELSE sincePass
  /\ burstGoal' =
       IF /\ ~disposed /\ editorPath = EditorPath /\ events' # {}
          /\ AllLive(marks, _markers)
          /\ Len(_markers) = Cardinality(store)
          /\ RowsOf(marks, _markers) = store
       THEN {IF x >= r THEN x + 1 ELSE x : x \in store}
       ELSE NoGoal

\* The text from inside row a to inside row b > a is deleted: the markers on
\* rows a+1..b were in the deleted text and end on row a; later rows go up.
DeleteRange(a, b) ==
  /\ a < b
  /\ ApplyEdit([x \in Rows |-> IF x <= a THEN x
                               ELSE IF x <= b THEN a ELSE x - (b - a)],
               {x \in Rows : x > a}, {x \in Rows : a < x /\ x <= b})
  /\ sincePass' = "joined"
  /\ burstGoal' = NoGoal

\* Text is inserted at the start of row r: the markers on it change column only.
EditRow(r) ==
  /\ ApplyEdit([x \in Rows |-> x], {r}, {})
  /\ sincePass' = sincePass
  /\ burstGoal' = NoGoal

\* A handler that dispatches the add before the delete.
MarkerChangeDispatch_addFirst(event) ==
  IF editorPath = NoPath THEN <<>>
  ELSE IF ~event.isValid
       THEN <<[type |-> "delete", row |-> event.newRow]>>
       ELSE IF event.oldRow # event.newRow
            THEN <<[type |-> "add", row |-> event.newRow],
                   [type |-> "delete", row |-> event.oldRow]>>
            ELSE <<>>

\* What _handleMarkerChange(event) dispatches.
MarkerChangeDispatch(event) ==
  IF editorPath = NoPath THEN <<>>
  ELSE IF ~event.isValid
       THEN <<[type |-> "delete", row |-> event.newRow]>>
       ELSE IF event.oldRow # event.newRow
            THEN <<[type |-> "delete", row |-> event.oldRow],
                   [type |-> "add", row |-> event.newRow]>>
            ELSE <<>>

\* _handleMarkerChange(event), for one pending change event.
_handleMarkerChange(event) ==
  /\ event \in events
  /\ actions = <<>>
  /\ events' = events \ {event}
  /\ actions' = actions \o MarkerChangeDispatch(event)
  /\ UNCHANGED <<store, editorPath, marks, _markers,
                 _lastShadowBreakpointMarker, _gutter, gutterLive,
                 gutterVisible, gutterDestroyCalls, disposed, editorDestroyed,
                 delegateCalls, invariantFailed, sincePass>>
  /\ mover' = IF actions' = <<>> THEN NULL ELSE event.marker
  /\ burstGoal' = IF events' = {} /\ actions' = <<>> THEN NoGoal ELSE burstGoal

\* A marker destroyed before its change event was delivered may not emit it.
DropStaleEvent(event) ==
  /\ event \in events
  /\ ~marks[event.marker].live
  /\ events' = events \ {event}
  /\ UNCHANGED <<store, editorPath, marks, _markers,
                 _lastShadowBreakpointMarker, _gutter, gutterLive,
                 gutterVisible, gutterDestroyCalls, disposed, editorDestroyed,
                 actions, delegateCalls, invariantFailed, sincePass, mover>>
  /\ burstGoal' = NoGoal

\* ------------------------------------------------------------ the store
\* The store's rows after one dispatched action.
StoreApply(B, a) ==
  IF a.type = "add" THEN B \cup {a.row}
  ELSE IF a.type = "delete" THEN B \ {a.row}
  ELSE IF a.row \in B THEN B \ {a.row} ELSE B \cup {a.row}

\* The store processes the oldest dispatched action.
StoreProcess ==
  /\ actions # <<>>
  /\ store' = StoreApply(store, Head(actions))
  /\ actions' = Tail(actions)
  /\ sincePass' = IF store' # store /\ sincePass = "clean" THEN "dirty"
                  ELSE sincePass
  /\ UNCHANGED <<editorPath, marks, _markers, _lastShadowBreakpointMarker,
                 _gutter, gutterLive, gutterVisible, gutterDestroyCalls,
                 disposed, editorDestroyed, events, delegateCalls,
                 invariantFailed>>
  /\ mover' = IF actions' = <<>> THEN NULL ELSE mover
  /\ burstGoal' = IF events' = {} /\ actions' = <<>> THEN NoGoal ELSE burstGoal

\* ------------------------------------------------------------ lifecycle
\* A gutter-destroyed handler that also tells the owner.
_handleGutterDestroyed_notifies ==
  /\ ~disposed /\ gutterLive /\ HostIdle
  /\ gutterLive' = FALSE
  /\ _gutter' = FALSE
  /\ delegateCalls' = delegateCalls + 1
  /\ UNCHANGED <<store, editorPath, marks, _markers,
                 _lastShadowBreakpointMarker, gutterVisible,
                 gutterDestroyCalls, disposed, editorDestroyed, events,
                 actions, invariantFailed, sincePass, mover,
                 burstGoal>>

\* The gutter is destroyed by something else; its onDidDestroy calls
\* _handleGutterDestroyed.
_handleGutterDestroyed ==
  /\ ~disposed /\ gutterLive /\ HostIdle
  /\ gutterLive' = FALSE
  /\ _gutter' = FALSE
  /\ UNCHANGED <<store, editorPath, marks, _markers,
                 _lastShadowBreakpointMarker, gutterVisible,
                 gutterDestroyCalls, disposed, editorDestroyed, events,
                 actions, delegateCalls, invariantFailed, sincePass, mover,
                 burstGoal>>

\* The editor is destroyed (its gutters go with it); while subscribed,
\* _handleTextEditorDestroyed runs.
_handleTextEditorDestroyed ==
  /\ ~editorDestroyed /\ HostIdle
  /\ editorDestroyed' = TRUE
  /\ gutterLive' = FALSE
  /\ _gutter' = IF disposed THEN _gutter ELSE FALSE
  /\ delegateCalls' = IF disposed THEN delegateCalls ELSE delegateCalls + 1
  /\ UNCHANGED <<store, editorPath, marks, _markers,
                 _lastShadowBreakpointMarker, gutterVisible,
                 gutterDestroyCalls, disposed, events, actions,
                 invariantFailed, sincePass, mover,
                 burstGoal>>

\* A dispose() that leaves the committed markers alone.
DestroyAll_none(mk, ms) == mk

RECURSIVE DestroyAll(_, _)
\* this._markers.forEach(marker => marker.destroy())
DestroyAll(mk, ms) ==
  IF ms = <<>> THEN mk ELSE DestroyAll(Destroy(mk, Head(ms)), Tail(ms))

\* A dispose() that destroys the gutter without looking at this._gutter.
DisposeDestroysGutter_always(gutter) == TRUE

\* if (this._gutter) { this._gutter.destroy(); }
DisposeDestroysGutter(gutter) == gutter

\* dispose()
dispose ==
  /\ ~disposed /\ HostIdle
  /\ disposed' = TRUE
  /\ marks' = DestroyAll(marks, _markers)
  /\ gutterDestroyCalls' =
       gutterDestroyCalls + (IF DisposeDestroysGutter(_gutter) THEN 1 ELSE 0)
  /\ gutterLive' = IF DisposeDestroysGutter(_gutter) THEN FALSE ELSE gutterLive
  /\ UNCHANGED <<store, editorPath, _markers, _lastShadowBreakpointMarker,
                 _gutter, gutterVisible, editorDestroyed, events, actions,
                 delegateCalls, invariantFailed, sincePass, mover,
                 burstGoal>>

\* The buffer is saved under a path, or loses its file: getPath(), which every
\* handler reads anew, answers differently from now on.  Nothing is notified.
PathChanged ==
  /\ ~disposed /\ ~editorDestroyed /\ HostIdle
  /\ editorPath' = IF editorPath = NoPath THEN EditorPath ELSE NoPath
  /\ UNCHANGED <<store, marks, _markers, _lastShadowBreakpointMarker, _gutter,
                 gutterLive, gutterVisible, gutterDestroyCalls, disposed,
                 editorDestroyed, events, actions, delegateCalls,
                 invariantFailed, sincePass, mover,
                 burstGoal>>

\* ------------------------------------------------------- specification
Next ==
  \/ \E p \in Paths : _handleBreakpointsChanged(p)
  \/ \E r \in Rows : _handleGutterMouseMove(r)
  \/ _handleGutterMouseLeave
  \/ \E r \in Rows, onIcon \in BOOLEAN : _handleGutterClick(r, onIcon)
  \/ \E r \in Rows : InsertLine(r)
  \/ \E a, b \in Rows : DeleteRange(a, b)
  \/ \E r \in Rows : EditRow(r)
  \/ \E e \in events : _handleMarkerChange(e)
  \/ \E e \in events : DropStaleEvent(e)
  \/ StoreProcess
  \/ _handleGutterDestroyed
  \/ _handleTextEditorDestroyed
  \/ dispose
  \/ PathChanged

Spec == Init /\ [][Next]_vars

\* ================================================================ claims
OneMarkerPerRow(mk, ms) ==
  \A i, j \in DOMAIN ms :
    (i # j /\ mk[ms[i]].live /\ mk[ms[j]].live) => mk[ms[i]].row # mk[ms[j]].row

\* A store-change notification for this editor's path whose _update() passes
\* both guards.
UpdateRan ==
  /\ _gutter /\ editorPath = EditorPath
  /\ _handleBreakpointsChanged(EditorPath)

\* C1: after the constructor and after every completed _update() the committed
\* markers are live, sit on exactly the store's rows for the path, one marker
\* per row; and a pass keeps, for every row that already had a committed
\* marker, a marker of the prior set, untouched (never a newly created one).
C1_ReconcileExact ==
  /\ [](sincePass = "clean" /\ ~disposed =>
          /\ RowsOf(marks, _markers) = store
          /\ Len(_markers) = Cardinality(store)
          /\ AllLive(marks, _markers)
          /\ OneMarkerPerRow(marks, _markers))
  /\ [][UpdateRan =>
          /\ RowsOf(marks', _markers') = store
          /\ Len(_markers') = Cardinality(store)
          /\ \A m \in Range(_markers') :
               (\E q \in Range(_markers) : marks[q].row = marks'[m].row)
                 => /\ m \in Range(_markers)
                    /\ marks'[m] = marks[m]
                    /\ marks[m].live]_vars

\* A later pass has kept marker 1 and created marker 2 on a row above it (the
\* constructor's pass creates its markers in ascending row order).
C1_Witness ==
  /\ sincePass = "clean" /\ ~disposed /\ _gutter
  /\ _markers = <<1, 2>>
  /\ marks[2].row < marks[1].row

\* C2 as claimed: in every reachable state the rows of the (live) committed
\* markers are pairwise distinct.
C2_RowsAlwaysDistinct == OneMarkerPerRow(marks, _markers)

\* C2 as amended: the rows of the committed markers are pairwise distinct in
\* every reachable state in which no edit has deleted lines since the last
\* completed _update().
C2_RowsDistinctUnlessJoined ==
  sincePass # "joined" => OneMarkerPerRow(marks, _markers)

\* An inserted line has just moved two committed markers; they are off the
\* store's rows and still on distinct rows.
C2_Witness ==
  /\ sincePass = "dirty" /\ ~disposed
  /\ Len(_markers) >= 2
  /\ AllLive(marks, _markers)
  /\ Cardinality(events) >= 2
  /\ \A e \in events : e.oldRow # e.newRow
  /\ RowsOf(marks, _markers) # store

\* C3: when a pass has completed and since then the store's rows are unchanged
\* and no marker moved, running _update() again creates nothing, destroys
\* nothing and leaves this._markers the same instances.
C3_Idempotent ==
  (sincePass = "clean" /\ ~disposed) =>
    LET again == _update(marks, _markers, store)
    IN again.marks = marks /\ again.markers = _markers

\* A pass has destroyed marker 1 and committed marker 2, and a further
\* notification can run _update() again.
C3_Witness ==
  /\ sincePass = "clean" /\ ~disposed /\ _gutter /\ editorPath = EditorPath
  /\ _markers = <<2>>
  /\ marks[1] = Dead

\* C4: at most one live shadow marker exists in every reachable state.
C4_AtMostOneShadow == Cardinality(LiveShadows) <= 1

\* C5: a pointer-move to the row of the current shadow marker changes nothing;
\* a pointer-move to another row destroys the shadow marker, if any, and
\* creates one marker on that row, which is the new shadow marker; a
\* pointer-leave destroys the shadow marker and leaves no shadow reference.
C5_GestureMachine ==
  [][/\ \A r \in Rows :
          _handleGutterMouseMove(r) =>
            IF _isLineOverLastShadowBreakpoint(r)
            THEN marks' = marks
                 /\ _lastShadowBreakpointMarker' = _lastShadowBreakpointMarker
            ELSE /\ Len(marks') = Len(marks) + 1
                 /\ _lastShadowBreakpointMarker' = Len(marks')
                 /\ marks'[Len(marks')].row = r
                 /\ marks'[Len(marks')].live
                 /\ _lastShadowBreakpointMarker # NULL =>
                      ~marks'[_lastShadowBreakpointMarker].live
     /\ _handleGutterMouseLeave =>
          /\ _lastShadowBreakpointMarker' = NULL
          /\ Len(marks') = Len(marks)
          /\ _lastShadowBreakpointMarker # NULL =>
               ~marks'[_lastShadowBreakpointMarker].live]_vars

\* C6: the handler of a change event of a marker that is still valid
\* dispatches deleteBreakpoint(path, oldRow) and then addBreakpoint(path,
\* newRow), and nothing else, when the row changed, and nothing when it did not.
C6_EditMove ==
  [][\A e \in events :
       (_handleMarkerChange(e) /\ editorPath = EditorPath /\ e.isValid) =>
         actions' = actions \o
           (IF e.oldRow # e.newRow
            THEN <<[type |-> "delete", row |-> e.oldRow],
                   [type |-> "add", row |-> e.newRow]>>
            ELSE <<>>)]_vars

\* A move's two dispatches are waiting for the store, the delete first.
C6_Witness ==
  /\ Len(actions) = 2
  /\ actions[1].type = "delete" /\ actions[2].type = "add"
  /\ actions[1].row # actions[2].row

\* C7: the handler of the change event of a marker whose text an edit
\* deleted dispatches deleteBreakpoint(path, r), r the marker's row before the
\* edit, and nothing else.
C7_EditInvalidate ==
  [][\A e \in events :
       (_handleMarkerChange(e) /\ editorPath = EditorPath /\ e.spanned) =>
         actions' = actions \o <<[type |-> "delete", row |-> e.oldRow]>>]_vars

\* C8: once dispose() has returned no marker the controller created is live.
C8_DisposeFreesMarkers == disposed => LiveMarkers = {}

\* C9: the controller calls gutter.destroy() only in dispose(), exactly once
\* when no gutter-destroyed or editor-destroyed notification has emptied
\* this._gutter before, and never otherwise; it never destroys a gutter that
\* no longer exists.
C9_GutterDestroyedIffPresent ==
  /\ ~disposed => (gutterDestroyCalls = 0 /\ (_gutter <=> gutterLive))
  /\ disposed => (gutterDestroyCalls = (IF _gutter THEN 1 ELSE 0)
                  /\ ~gutterLive)

\* The gutter was destroyed from outside, then the controller was disposed.
C9_Witness ==
  disposed /\ ~_gutter /\ ~editorDestroyed /\ gutterDestroyCalls = 0

\* C10: while this._gutter is null no handler fails the invariant and no
\* handler creates a marker.
C10_SilentNoOp ==
  [][~_gutter =>
       (Len(marks') = Len(marks) /\ invariantFailed' = invariantFailed)]_vars

\* C11: while the editor has no path, a store-change notification creates and
\* destroys no marker and leaves this._markers and the gutter as they are, a
\* click dispatches nothing, and a marker-change event dispatches nothing.
C11_NoPathSkipsStore ==
  [][editorPath = NoPath =>
       /\ \A p \in Paths :
            _handleBreakpointsChanged(p) =>
              /\ marks' = marks
              /\ _markers' = _markers
              /\ gutterVisible' = gutterVisible
       /\ \A r \in Rows, onIcon \in BOOLEAN :
            _handleGutterClick(r, onIcon) => actions' = actions
       /\ \A e \in events :
            _handleMarkerChange(e) => actions' = actions]_vars

\* The editor has no path; one edit moved two committed markers; the change
\* event of the lower one has been handled, nothing was dispatched, and the
\* event of the upper one is still pending.
C11_Witness ==
  /\ editorPath = NoPath /\ ~disposed
  /\ actions = <<>>
  /\ \E e \in events :
       /\ e.oldRow # e.newRow
       /\ \E m \in Range(_markers) :
            /\ m # e.marker
            /\ marks[m].live /\ marks[m].handler
            /\ marks[m].row > e.newRow
            /\ \A f \in events : f.marker # m

\* C12: delegate.handleTextEditorDestroyed is called at most once in the life
\* of a controller, and only by the handler of the editor's destruction, while
\* the controller is subscribed; no other step calls it.
C12_OwnerNotifiedOnce ==
  /\ [](delegateCalls <= 1)
  /\ [][delegateCalls' # delegateCalls =>
          /\ _handleTextEditorDestroyed
          /\ ~disposed
          /\ delegateCalls' = delegateCalls + 1]_vars

\* The editor was destroyed and the controller disposed after that: the owner
\* was told once and dispose() found no gutter to destroy.
C12_Witness ==
  delegateCalls = 1 /\ disposed /\ editorDestroyed /\ gutterDestroyCalls = 0

\* C13: a click on row R dispatches exactly toggleBreakpoint(path, R) when the
\* target is not the inline icon and the editor has a path, and nothing when
\* the target is the inline icon; the click handler changes no marker, not
\* this._markers and not the shadow marker.
C13_ClickToggles ==
  [][\A r \in Rows, onIcon \in BOOLEAN :
       _handleGutterClick(r, onIcon) =>
         /\ actions' = actions \o
              (IF ~onIcon /\ editorPath = EditorPath
               THEN <<[type |-> "toggle", row |-> r]>>
               ELSE <<>>)
         /\ marks' = marks
         /\ _markers' = _markers
         /\ _lastShadowBreakpointMarker' = _lastShadowBreakpointMarker]_vars

\* The pointer hovers over a row, a click was dispatched and the store has not
\* processed it yet; the committed markers are those of the last pass.
C13_Witness ==
  /\ _lastShadowBreakpointMarker # NULL
  /\ sincePass = "clean" /\ _markers # <<>>
  /\ actions = <<[type |-> "toggle",
                  row |-> marks[_lastShadowBreakpointMarker].row]>>

\* C14: when the committed markers are those of the last pass and the store
\* has since added one row R (the toggle of a click on a row without
\* breakpoint), the _update() of the store's notification creates exactly one
\* marker, on row R, with the change handler, appends it to this._markers, and
\* keeps every other committed marker as the same, untouched instance.
C14_ClickLoopCloses ==
  [][\A R \in Rows :
       (/\ UpdateRan
        /\ R \in store
        /\ AllLive(marks, _markers)
        /\ OneMarkerPerRow(marks, _markers)
        /\ Len(_markers) = Cardinality(store) - 1
        /\ RowsOf(marks, _markers) = store \ {R})
       => /\ Len(marks') = Len(marks) + 1
          /\ marks'[Len(marks')] =
               [row |-> R, live |-> TRUE, shadow |-> FALSE,
                handler |-> TRUE, decorated |-> TRUE]
          /\ _markers' = Append(_markers, Len(marks'))
          /\ \A m \in DOMAIN marks : marks'[m] = marks[m]]_vars

\* The loop has closed: marker 1 is the marker of the constructor's pass, and
\* marker 2, the only other marker ever made, was appended for a row above it.
C14_Witness ==
  /\ sincePass = "clean" /\ ~disposed /\ _gutter /\ editorPath = EditorPath
  /\ Len(marks) = 2
  /\ _markers = <<1, 2>>
  /\ marks[1].row = marks[2].row + 1
  /\ store = {marks[1].row, marks[2].row}

\* C15: no handler of the controller changes the store's rows for the path,
\* in particular not a pass of _update(), which deletes rows from the set it
\* got from the store; the rows change only when the store processes a
\* dispatched addBreakpoint, deleteBreakpoint or toggleBreakpoint.
C15_StoreOnlyByDispatch ==
  [][/\ store' # store =>
          /\ StoreProcess
          /\ store' = StoreApply(store, Head(actions))
     /\ UpdateRan => store' = store]_vars

\* A pass has kept marker 1, taking its row out of unhandledLines, and has
\* created marker 2 two rows above; the store still holds both rows.
C15_Witness ==
  /\ sincePass = "clean" /\ ~disposed
  /\ _markers = <<1, 2>>
  /\ marks[1].row - marks[2].row = 2
  /\ store = {marks[1].row, marks[2].row}

\* C16: a marker that an edit moved to another row is not kept by a pass of
\* _update(): a pass that runs while the deleteBreakpoint and addBreakpoint of
\* the marker's move are being processed drops the marker from this._markers
\* (the marker shown on the new row is created afresh).
C16_MovedMarkerReplaced ==
  [][(UpdateRan /\ mover # NULL) => mover \notin Range(_markers')]_vars

\* C17: only the markers a pass of _update() created have the change handler:
\* every live committed marker has it and no shadow marker has it; an edit
\* that moves the shadow marker raises no change event for it, and the
\* dispatches being processed never come from a shadow marker.
C17_OnlyCommittedFeedBack ==
  /\ [](/\ \A m \in LiveMarkers : marks[m].handler <=> ~marks[m].shadow
        /\ \A i \in DOMAIN _markers :
             marks[_markers[i]].live => marks[_markers[i]].handler
        /\ \A e \in events :
             marks[e.marker].live => ~marks[e.marker].shadow
        /\ (mover # NULL /\ marks[mover].live) => ~marks[mover].shadow)
  /\ [][\A m \in LiveShadows :
          marks'[m].row # marks[m].row =>
            (actions' = actions /\ \A e \in events' : e.marker # m)]_vars

\* One edit has moved a committed marker and, below it, the shadow marker:
\* only the committed marker's change event is pending.
C17_Witness ==
  /\ _lastShadowBreakpointMarker # NULL
  /\ marks[_lastShadowBreakpointMarker].live
  /\ \E e \in events :
       /\ e.oldRow # e.newRow
       /\ marks[_lastShadowBreakpointMarker].row > e.newRow
  /\ \A e \in events : e.marker # _lastShadowBreakpointMarker

\* C18: once dispose() has returned, no step (store notification, pointer
\* event, gutter or editor destruction, text edit, marker change) creates a
\* marker, raises a marker-change event, dispatches an action or calls the
\* owner.
C18_QuiescentAfterDispose ==
  [][disposed =>
       /\ Len(marks') = Len(marks)
       /\ events' = events
       /\ actions' = actions
       /\ delegateCalls' = delegateCalls]_vars

\* The controller was disposed while the store held breakpoints, and the
\* editor was destroyed afterwards: the owner was not told.
C18_Witness ==
  /\ disposed /\ editorDestroyed
  /\ delegateCalls = 0
  /\ store # {} /\ _markers # <<>>

\* C19: when a line insertion shifts the committed markers of a display that
\* agrees with the store, then, once all its marker-change events and their
\* deleteBreakpoint/addBreakpoint dispatches have been processed, in whatever
\* order and with whatever passes of _update() in between, the store's rows
\* for the path are the rows before the edit, shifted as the lines were.
C19_ShiftKeepsBreakpoints ==
  [][(/\ burstGoal # NoGoal
      /\ events' = {} /\ actions' = <<>>
      /\ ~\E e \in events : DropStaleEvent(e))
     => store' = burstGoal]_vars

\* C20: while the controller is not disposed, every live marker it created is
\* in this._markers or is the marker this._lastShadowBreakpointMarker refers
\* to.
C20_NoMarkerLeak ==
  ~disposed =>
    \A m \in LiveMarkers :
      m \in Range(_markers) \/ m = _lastShadowBreakpointMarker
====
